---- MODULE Spec2Model ----
(***************************************************************************)
(* Model of backend/app.py of ASTHRA: the AI provider registry             *)
(* (_init_ai_provider), the plan fetcher (_call_ai_plan), the plan         *)
(* normalizer (_normalize_plan) and the /chat request handler.             *)
(*                                                                         *)
(* Python values are tagged records [t |-> <type>, v |-> <payload>].       *)
(* A Python str is a sequence of atoms.  An atom is either one character   *)
(* of Chars, or the text of a string literal of the program written as one *)
(* atom; a literal atom begins and ends with a non-whitespace character,   *)
(* and a literal that ends in a blank is written with a trailing " " atom. *)
(***************************************************************************)
EXTENDS Integers, Sequences, FiniteSets, TLC

\* ------------------------------------------------------------------ bounds
MaxStrLen == 2
MaxBullets == 2
MaxSections == 2

\* ------------------------------------------------------- Python primitives
Whitespace == {" ", "\n", "\t"}

\* the characters input strings are made of
Chars == {"a", " "}

PyNone == [t |-> "none"]
PyStr(s) == [t |-> "str", v |-> s]
PyInt(n) == [t |-> "int", v |-> n]
PyList(s) == [t |-> "list", v |-> s]
PyDict(f) == [t |-> "dict", v |-> f]

\* the outcome of a call that raised instead of returning
Raised == [t |-> "raised"]

\* bool(x)
Truthy(x) ==
    CASE x.t = "none" -> FALSE
      [] x.t = "str" -> x.v # <<>>
      [] x.t = "int" -> x.v # 0
      [] x.t = "list" -> x.v # <<>>
      [] x.t = "dict" -> DOMAIN x.v # {}
      [] OTHER -> FALSE

\* a or b
Or(a, b) == IF Truthy(a) THEN a ELSE b

\* s.strip() on the atoms of a str
Strip(s) ==
    LET keep == {i \in 1..Len(s) : s[i] \notin Whitespace}
    IN IF keep = {} THEN <<>>
       ELSE LET lo == CHOOSE i \in keep : \A j \in keep : i <= j
                hi == CHOOSE i \in keep : \A j \in keep : i >= j
            IN SubSeq(s, lo, hi)

\* str(x): a str is itself; every other value prints as non-blank text
StrOf(x) ==
    CASE x.t = "str" -> x.v
      [] x.t = "none" -> <<"None">>
      [] x.t = "int" -> <<"int">>
      [] x.t = "list" -> <<"[", "]">>
      [] x.t = "dict" -> <<"{", "}">>
      [] OTHER -> <<"?">>

\* d.get(k, default); only a dict has .get
HasGet(d) == d.t = "dict"
Get(d, k, default) == IF k \in DOMAIN d.v THEN d.v[k] ELSE default

\* the keys of the JSON objects of the model, in the order a dict yields them
KeyOrder == <<"title", "summary", "sections", "claims", "certificate_note",
              "heading", "bullets">>

\* `for e in x`: a list yields its elements, a str its characters, a dict
\* its keys; None and numbers are not iterable (TypeError).  The strings
\* that are iterated are input strings, whose atoms are single characters.
CanIter(x) == x.t \in {"list", "str", "dict"}
Iter(x) ==
    CASE x.t = "list" -> x.v
      [] x.t = "str" -> [i \in 1..Len(x.v) |-> PyStr(<<x.v[i]>>)]
      [] x.t = "dict" ->
            LET ks == SelectSeq(KeyOrder, LAMBDA k : k \in DOMAIN x.v)
            IN [i \in 1..Len(ks) |-> PyStr(<<ks[i]>>)]
      [] OTHER -> <<>>

\* --------------------------------------------------------- _normalize_plan
\* [b.strip() for b in items if str(b).strip()] : the filter keeps every
\* entry whose str() is not blank, and .strip() exists only on a str
CleanItems(items) ==
    LET kept == SelectSeq(items, LAMBDA b : Strip(StrOf(b)) # <<>>)
    IN IF \E i \in 1..Len(kept) : kept[i].t # "str"
       THEN Raised
       ELSE PyList([i \in 1..Len(kept) |-> PyStr(Strip(kept[i].v))])

\* line 267 with the default dropped: a section keeps its empty bullets
BulletsOrDefault_NoDefault(bullets) == bullets

\* line 267: bullets or ["Details pending."]
BulletsOrDefault(bullets) ==
    Or(bullets, PyList(<<PyStr(<<"Details pending.">>)>>))

\* one pass of the loop body over `section`
SectionOut(section) ==
    IF ~HasGet(section) THEN Raised
    ELSE LET heading == Or(Get(section, "heading", PyNone), PyStr(<<"Section">>))
             rawBullets == Get(section, "bullets", PyList(<<>>))
         IN IF ~CanIter(rawBullets) THEN Raised
            ELSE LET bullets == CleanItems(Iter(rawBullets))
                 IN IF bullets = Raised THEN Raised
                    ELSE PyDict([k \in {"heading", "bullets"} |->
                            IF k = "heading" THEN heading
                            ELSE BulletsOrDefault(bullets)])

DefaultSummary(fallback_message) ==
    PyStr(<<"Generated documentation for:", " ">> \o fallback_message)

NormalizePlan(plan, fallback_message) ==
    IF ~HasGet(plan) THEN Raised
    ELSE
    LET title == Or(Get(plan, "title", PyNone), PyStr(<<"ASTHRA Project Documentation">>))
        summary == Or(Get(plan, "summary", PyNone), DefaultSummary(fallback_message))
        rawSections == Get(plan, "sections", PyList(<<>>))
        rawClaims == Get(plan, "claims", PyList(<<>>))
    IN
    IF ~CanIter(rawSections) THEN Raised
    ELSE
    LET entries == Iter(rawSections)
        outs == [i \in 1..Len(entries) |-> SectionOut(entries[i])]
    IN
    IF \E i \in 1..Len(outs) : outs[i] = Raised THEN Raised
    ELSE
    LET sections == IF outs # <<>> THEN outs
                    ELSE <<PyDict([k \in {"heading", "bullets"} |->
                             IF k = "heading" THEN PyStr(<<"Overview">>)
                             ELSE PyList(<<summary>>)])>>
    IN
    IF ~CanIter(rawClaims) THEN Raised
    ELSE
    LET cleaned == CleanItems(Iter(rawClaims))
    IN
    IF cleaned = Raised THEN Raised
    ELSE
    LET claims == Or(cleaned, PyList(<<PyStr(<<"Automated documentation generation based on user input.">>)>>))
        certificate_note == Or(Get(plan, "certificate_note", PyNone), PyStr(<<"Generated via ASTHRA.">>))
    IN PyDict([k \in {"title", "summary", "sections", "claims", "certificate_note"} |->
          CASE k = "title" -> title
            [] k = "summary" -> summary
            [] k = "sections" -> PyList(sections)
            [] k = "claims" -> claims
            [] OTHER -> certificate_note])

\* ------------------------------------------------------ _init_ai_provider
\* the values AI_PROVIDER can be configured to (already lower-cased);
\* "foo" stands for any unsupported name
ProviderSettings == {"auto", "openai", "azure", "gemini", "bedrock", "foo"}

EnvVars == {"AZURE_OPENAI_ENDPOINT", "AZURE_OPENAI_API_KEY",
            "AZURE_OPENAI_DEPLOYMENT", "AZURE_OPENAI_MODEL",
            "GEMINI_API_KEY", "AWS_ACCESS_KEY_ID", "AWS_SESSION_TOKEN",
            "OPENAI_API_KEY"}

\* the optional SDK imports of lines 27-41 that can succeed
Sdks == {"openai", "genai", "boto3"}

\* messages of the exceptions a client constructor or a provider call raises;
\* str(exc) of an exception raised without arguments is the empty string
NoExc == PyNone
ExcMsgs == {<<>>, <<"timed out">>}

\* bool(os.getenv(k)) under the environment env (the set of variables that
\* are set to a non-empty value)
Getenv(env, k) == k \in env

\* lines 51-62: the provider auto-detection picks; "" when none is picked
AutoDetect(env) ==
    IF Getenv(env, "AZURE_OPENAI_ENDPOINT") /\ Getenv(env, "AZURE_OPENAI_API_KEY")
        THEN "azure"
    ELSE IF Getenv(env, "GEMINI_API_KEY") THEN "gemini"
    ELSE IF Getenv(env, "AWS_ACCESS_KEY_ID") \/ Getenv(env, "AWS_SESSION_TOKEN")
        THEN "bedrock"
    ELSE IF Getenv(env, "OPENAI_API_KEY") THEN "openai"
    ELSE ""

\* the globals as module import leaves them before _init_ai_provider runs
Globals0(setting) ==
    [AI_ENABLED |-> FALSE, AI_PROVIDER |-> setting,
     AI_MODEL |-> <<"gpt-4o-mini">>, AI_STATUS_MSG |-> <<"AI not initialized">>,
     client |-> "None", bedrock_client |-> "None", raised |-> FALSE]

\* lines 65-131: the branch of the resolved provider, from globals g
InitBranch(g, provider, env, sdks, ctorExc) ==
    IF provider = "openai" THEN
        IF "openai" \notin sdks
            THEN [g EXCEPT !.AI_STATUS_MSG = <<"openai package not installed">>]
        ELSE IF ~Getenv(env, "OPENAI_API_KEY")
            THEN [g EXCEPT !.AI_STATUS_MSG = <<"OPENAI_API_KEY missing">>]
        ELSE IF ctorExc # NoExc THEN [g EXCEPT !.raised = TRUE]
        ELSE [g EXCEPT !.client = "OpenAI", !.AI_ENABLED = TRUE,
                       !.AI_STATUS_MSG = <<"OpenAI ready">>]
    ELSE IF provider = "azure" THEN
        IF "openai" \notin sdks
            THEN [g EXCEPT !.AI_STATUS_MSG = <<"openai package (AzureOpenAI) not installed">>]
        ELSE IF ~(/\ Getenv(env, "AZURE_OPENAI_ENDPOINT")
                  /\ Getenv(env, "AZURE_OPENAI_API_KEY")
                  /\ \/ Getenv(env, "AZURE_OPENAI_DEPLOYMENT")
                     \/ Getenv(env, "AZURE_OPENAI_MODEL"))
            THEN [g EXCEPT !.AI_STATUS_MSG = <<"Azure OpenAI env vars missing (endpoint/key/deployment)">>]
        ELSE IF ctorExc # NoExc THEN [g EXCEPT !.raised = TRUE]
        ELSE [g EXCEPT !.client = "AzureOpenAI",
                       !.AI_MODEL = IF Getenv(env, "AZURE_OPENAI_DEPLOYMENT")
                                    THEN <<"$AZURE_OPENAI_DEPLOYMENT">>
                                    ELSE <<"$AZURE_OPENAI_MODEL">>,
                       !.AI_ENABLED = TRUE,
                       !.AI_STATUS_MSG = <<"Azure OpenAI ready">>]
    ELSE IF provider = "gemini" THEN
        IF "genai" \notin sdks
            THEN [g EXCEPT !.AI_STATUS_MSG = <<"google-generativeai not installed">>]
        ELSE IF ~Getenv(env, "GEMINI_API_KEY")
            THEN [g EXCEPT !.AI_STATUS_MSG = <<"GEMINI_API_KEY missing">>]
        ELSE IF ctorExc # NoExc THEN [g EXCEPT !.raised = TRUE]
        ELSE [g EXCEPT !.AI_MODEL = <<"gemini-1.5-flash">>, !.AI_ENABLED = TRUE,
                       !.AI_STATUS_MSG = <<"Gemini ready">>]
    ELSE IF provider = "bedrock" THEN
        IF "boto3" \notin sdks
            THEN [g EXCEPT !.AI_STATUS_MSG = <<"boto3 not installed for Bedrock">>]
        ELSE IF ctorExc # NoExc
            THEN [g EXCEPT !.AI_STATUS_MSG = <<"Bedrock init error:", " ">> \o ctorExc.v]
        ELSE [g EXCEPT !.bedrock_client = "bedrock-runtime",
                       !.AI_MODEL = <<"anthropic.claude-3-haiku-20240307-v1:0">>,
                       !.AI_ENABLED = TRUE,
                       !.AI_STATUS_MSG = <<"AWS Bedrock ready">>]
    ELSE [g EXCEPT !.AI_STATUS_MSG = <<"Unknown AI_PROVIDER '", provider, "'">>]

\* _init_ai_provider as a function of what it reads: the configured
\* AI_PROVIDER, the environment, the importable SDKs and the exception (if
\* any) the client constructor raises.  raised = TRUE: the exception escapes.
InitResult(setting, env, sdks, ctorExc) ==
    LET g == Globals0(setting)
    IN IF setting = "auto"
       THEN IF AutoDetect(env) = ""
            THEN [g EXCEPT !.AI_STATUS_MSG = <<"No AI credentials found; running in static mode">>]
            ELSE InitBranch([g EXCEPT !.AI_PROVIDER = AutoDetect(env)],
                            AutoDetect(env), env, sdks, ctorExc)
       ELSE InitBranch(g, setting, env, sdks, ctorExc)

\* ---------------------------------------------------------- JSON helpers
\* a key that a JSON object does not have
Absent == [t |-> "absent"]

\* the dict with the keys of record f whose value is not Absent
Obj(f) == PyDict([k \in {x \in DOMAIN f : f[x] # Absent} |-> f[k]])

Section(heading, bullets) == Obj([heading |-> heading, bullets |-> bullets])

Plan(title, summary, sections, claims, note) ==
    Obj([title |-> title, summary |-> summary, sections |-> sections,
         claims |-> claims, certificate_note |-> note])

\* ---------------------------------------------------------- _fallback_plan
FallbackPlan(message, file) ==
    LET file_note == IF file # PyNone
                     THEN PyStr(<<"Uploaded file:", " ">> \o file.v)
                     ELSE PyStr(<<"No upload provided.">>)
    IN Plan(PyStr(<<"ASTHRA Project Documentation">>),
            PyStr(<<"Generated documentation for:", " ">> \o message),
            PyList(<<
              Section(PyStr(<<"Overview">>),
                      PyList(<<PyStr(<<"Project statement received and logged.">>),
                               PyStr(<<"ASTHRA generated offline demo content.">>),
                               file_note>>)),
              Section(PyStr(<<"Objectives">>),
                      PyList(<<PyStr(<<"Demonstrate PDF, PPT, patent draft, and certificates.">>),
                               PyStr(<<"Content is sample-only when AI is disabled.">>)>>)),
              Section(PyStr(<<"Next Steps">>),
                      PyList(<<PyStr(<<"Enable AI (set OPENAI_API_KEY) for richer drafts.">>),
                               PyStr(<<"Refine requirements and rerun generation.">>)>>))>>),
            PyList(<<PyStr(<<"A system that generates multiple documentation artifacts from one input.">>),
                     PyStr(<<"Automated slide and patent-style drafting based on project descriptions.">>)>>),
            PyStr(<<"Demo certificate generated in offline mode.">>))

\* ----------------------------------------------------------- _call_ai_plan
\* the text a provider answers with: well-formed JSON text of a value, or
\* text that is not JSON
JsonText(value) == [wf |-> TRUE, v |-> value]
NotJson == [wf |-> FALSE]

\* json.loads(text): the decoded value, or the message of the
\* JSONDecodeError it raises
JsonLoads(text) ==
    IF text.wf THEN [ok |-> TRUE, v |-> text.v]
    ELSE [ok |-> FALSE, msg |-> <<"Expecting value: line 1 column 1 (char 0)">>]

\* what the provider call does: raise (network error, timeout, non-2xx,
\* bad envelope) with message msg, or deliver the text raw_content
Raises(msg) == [kind |-> "raise", msg |-> msg]
Answers(text) == [kind |-> "text", raw_content |-> text]

\* lines 207-252 after the provider is dispatched: one provider call, then
\* json.loads of its text, all inside the try
CallProvider(outcome) ==
    IF outcome.kind = "raise"
    THEN [plan |-> PyNone, error |-> PyStr(outcome.msg), calls |-> 1]
    ELSE LET parsed == JsonLoads(outcome.raw_content)
         IN IF parsed.ok
            THEN [plan |-> parsed.v, error |-> PyNone, calls |-> 1]
            ELSE [plan |-> PyNone, error |-> PyStr(parsed.msg), calls |-> 1]

\* _call_ai_plan under globals g: the returned pair and the number of
\* provider calls made
CallAIPlan(g, outcome) ==
    IF ~g.AI_ENABLED
    THEN [plan |-> PyNone, error |-> PyStr(g.AI_STATUS_MSG), calls |-> 0]
    ELSE IF g.AI_PROVIDER \in {"openai", "azure"} /\ g.client # "None"
         THEN CallProvider(outcome)
    ELSE IF g.AI_PROVIDER = "gemini" THEN CallProvider(outcome)
    ELSE IF g.AI_PROVIDER = "bedrock" /\ g.bedrock_client # "None"
         THEN CallProvider(outcome)
    ELSE [plan |-> PyNone,
          error |-> PyStr(<<"Unsupported provider or client not initialized:", " ",
                            g.AI_PROVIDER>>),
          calls |-> 0]

\* -------------------------------------------------------------------- chat
\* "\n".join(lines)
RECURSIVE Join(_)
Join(lines) ==
    IF Len(lines) = 0 THEN <<>>
    ELSE IF Len(lines) = 1 THEN lines[1]
    ELSE lines[1] \o <<"\n">> \o Join(Tail(lines))

\* line 430 as a truthiness test: every non-empty mode asks for AI
WantsAI_AnyMode(mode) == mode # ""

\* line 430: mode == "hybrid"
WantsAI(mode) == mode = "hybrid"

\* lines 426-434: mode resolution
Resolve(g, mode, message, file, outcome) ==
    LET static == FallbackPlan(message, file)
    IN IF WantsAI(mode)
       THEN LET r == CallAIPlan(g, outcome)
            IN IF Truthy(r.plan)
               THEN [plan |-> NormalizePlan(r.plan, message), ai_used |-> TRUE,
                     ai_error |-> r.error, fetchCalls |-> 1,
                     providerCalls |-> r.calls, fetched |-> <<r.plan, r.error>>]
               ELSE [plan |-> static, ai_used |-> FALSE,
                     ai_error |-> r.error, fetchCalls |-> 1,
                     providerCalls |-> r.calls, fetched |-> <<r.plan, r.error>>]
       ELSE [plan |-> static, ai_used |-> FALSE, ai_error |-> PyNone,
             fetchCalls |-> 0, providerCalls |-> 0, fetched |-> <<>>]

\* lines 446-450
ReplyLines(plan, ai_error, ai_used) ==
    IF Truthy(ai_error) /\ ~ai_used
    THEN <<plan.v["summary"].v, <<"AI fallback reason:", " ">> \o ai_error.v>>
    ELSE IF Truthy(ai_error)
    THEN <<plan.v["summary"].v, <<"AI warning:", " ">> \o ai_error.v>>
    ELSE <<plan.v["summary"].v>>

\* a request that ended in an unhandled exception
Http500 == [status |-> 500]

\* lines 452-466
Response(g, mode, res) ==
    [status |-> 200,
     reply |-> Join(ReplyLines(res.plan, res.ai_error, res.ai_used)),
     ai |-> [enabled |-> g.AI_ENABLED, provider |-> g.AI_PROVIDER,
             model |-> g.AI_MODEL, status |-> g.AI_STATUS_MSG,
             mode_requested |-> mode,
             mode_used |-> IF res.ai_used THEN "hybrid" ELSE "static",
             error |-> res.ai_error]]

\* ------------------------------------------------------------------- state
VARIABLES
    environ,            \* os.environ: the variables set to a non-empty value
    provider_setting,   \* os.getenv("AI_PROVIDER", "auto").lower(), line 20
    imported,           \* the SDK imports of lines 27-41 that succeeded
    ctorExc,            \* NoExc, or str(exc) of what constructing a client raises
    AI_ENABLED, AI_PROVIDER, AI_MODEL, AI_STATUS_MSG, client, bedrock_client,
    pc,                 \* "import", "serving", "crashed" (import failed), "idle"
    request,            \* the last /chat request
    response,           \* its response
    plan,               \* the plan it resolved
    fetchCalls,         \* calls of _call_ai_plan during it
    providerCalls,      \* provider calls during it
    fetched,            \* what _call_ai_plan returned to it, <<>> if not called
    files,              \* the plan the files on disk were rendered from
    normIn, normSeed,   \* arguments of _normalize_plan
    normOut,            \* its result
    normAgain           \* the result of normalizing normOut again

registryVars == <<environ, provider_setting, imported, ctorExc, AI_ENABLED,
                  AI_PROVIDER, AI_MODEL, AI_STATUS_MSG, client, bedrock_client>>
chatVars == <<request, response, plan, fetchCalls, providerCalls, fetched, files>>
normVars == <<normIn, normSeed, normOut, normAgain>>
vars == <<registryVars, pc, chatVars, normVars>>

NotRun == [t |-> "notrun"]

\* the module globals as one record
Globals ==
    [AI_ENABLED |-> AI_ENABLED, AI_PROVIDER |-> AI_PROVIDER,
     AI_MODEL |-> AI_MODEL, AI_STATUS_MSG |-> AI_STATUS_MSG,
     client |-> client, bedrock_client |-> bedrock_client]

\* ------------------------------------------------------------ input domains
\* all strings over Chars of length at most n
Strs(n) == UNION {[1..k -> Chars] : k \in 0..n}

\* all sequences over S of length at most n
SeqsUpTo(S, n) == UNION {[1..k -> S] : k \in 0..n}

CtorOutcomes == {NoExc} \cup {PyStr(m) : m \in ExcMsgs}

\* the environments requests are served under: no variable set, or all
ChatEnvs == {{}, EnvVars}

Modes == {"static", "hybrid", "HYBRID"}
Messages == {<<"a">>, <<"a", " ">>}
Uploads == {PyNone, PyStr(<<"f.txt">>)}

\* entries of "bullets" and "claims" lists: blank, padded, not a string
ItemVals == {PyStr(<<" ">>), PyStr(<<" ", "a", " ">>), PyInt(7)}

\* values of "bullets" / "claims": missing, wrong-typed, or a list
ItemsOpts == {Absent, PyNone, PyStr(<<"a", " ">>)}
                \cup {PyList(l) : l \in SeqsUpTo(ItemVals, MaxBullets)}

\* values of a scalar field: missing, wrong-typed, or a string
ScalarOpts == {Absent, PyNone, PyInt(7)} \cup {PyStr(x) : x \in Strs(MaxStrLen)}

HeadingOpts == {Absent, PyStr(<<>>), PyStr(<<"a">>)}

\* values of the "bullets" of a section: as ItemsOpts, with lists of blank
\* and padded strings
BulletsOpts == {Absent, PyNone, PyStr(<<"a", " ">>), PyList(<<PyInt(7)>>)}
                  \cup {PyList(l) : l \in SeqsUpTo({PyStr(<<" ">>), PyStr(<<" ", "a", " ">>)},
                                                   MaxBullets)}

GoodItems == PyList(<<PyStr(<<"a">>)>>)
GoodSection == Section(PyStr(<<"a">>), GoodItems)
GoodPlan == Plan(PyStr(<<"a">>), PyStr(<<"a">>), PyList(<<GoodSection>>),
                 GoodItems, PyStr(<<"a">>))

\* entries of "sections": objects, and entries that are not objects
SectionEntries == {Section(h, GoodItems) : h \in HeadingOpts}
                     \cup {Section(PyStr(<<"a">>), b) : b \in BulletsOpts}
                     \cup {PyNone, PyStr(<<"a">>)}

SectionsOpts == {Absent, PyNone, PyStr(<<>>), PyStr(<<"a">>), Obj([title |-> Absent])}
                   \cup {PyList(l) : l \in SeqsUpTo(SectionEntries, MaxSections)}

\* arguments of _normalize_plan: values that are not objects, objects whose
\* scalar fields vary, objects whose claims vary, objects whose sections vary
NormInputs ==
    {PyNone, PyInt(7), PyStr(<<"a">>), PyList(<<>>), Obj([title |-> Absent])}
    \cup {Plan(t, s, secs, GoodItems, n) :
            t \in ScalarOpts, s \in ScalarOpts,
            secs \in {Absent, PyList(<<GoodSection>>)},
            n \in {Absent, PyStr(<<"a">>)}}
    \cup {Plan(PyStr(<<"a">>), s, secs, c, PyStr(<<"a">>)) :
            s \in {Absent, PyStr(<<"a">>)},
            secs \in {Absent, PyList(<<GoodSection>>)}, c \in ItemsOpts}
    \cup {Plan(PyStr(<<"a">>), s, secs, GoodItems, PyStr(<<"a">>)) :
            s \in {Absent, PyStr(<<" ", "a">>)}, secs \in SectionsOpts}

\* JSON values a provider answers with
FetchedJson ==
    {PyNone, Obj([title |-> Absent]), PyList(<<PyStr(<<"a">>)>>), GoodPlan,
     Obj([title |-> PyStr(<<"a">>)]),
     Obj([sections |-> PyList(<<Section(PyStr(<<"a">>), PyList(<<PyStr(<<" ">>)>>))>>)]),
     Obj([summary |-> PyInt(7)])}

ProviderOutcomes ==
    {Raises(m) : m \in ExcMsgs} \cup {Answers(NotJson)}
        \cup {Answers(JsonText(j)) : j \in FetchedJson}

\* ------------------------------------------------------------------ actions
ChatIdle ==
    /\ request = NotRun /\ response = NotRun /\ plan = NotRun
    /\ fetchCalls = 0 /\ providerCalls = 0 /\ fetched = <<>> /\ files = NotRun

NormIdle ==
    /\ normIn = PyNone /\ normSeed = <<>> /\ normOut = NotRun /\ normAgain = NotRun

\* module import up to line 133
Imported(envs, sdkSets) ==
    /\ environ \in envs
    /\ provider_setting \in ProviderSettings
    /\ imported \in sdkSets
    /\ ctorExc \in CtorOutcomes
    /\ AI_ENABLED = FALSE
    /\ AI_PROVIDER = provider_setting
    /\ AI_MODEL = <<"gpt-4o-mini">>
    /\ AI_STATUS_MSG = <<"AI not initialized">>
    /\ client = "None"
    /\ bedrock_client = "None"
    /\ pc = "import"

\* line 134: _init_ai_provider()
InitAIProvider ==
    /\ pc = "import"
    /\ LET r == InitResult(provider_setting, environ, imported, ctorExc)
       IN /\ AI_ENABLED' = r.AI_ENABLED
          /\ AI_PROVIDER' = r.AI_PROVIDER
          /\ AI_MODEL' = r.AI_MODEL
          /\ AI_STATUS_MSG' = r.AI_STATUS_MSG
          /\ client' = r.client
          /\ bedrock_client' = r.bedrock_client
          /\ pc' = IF r.raised THEN "crashed" ELSE "serving"
    /\ UNCHANGED <<environ, provider_setting, imported, ctorExc, chatVars, normVars>>

\* POST /chat, lines 415-466.  renderOk: the four _build_* calls return
Chat(mode, message, file, outcome, renderOk) ==
    /\ pc = "serving"
    /\ LET res == Resolve(Globals, mode, message, file, outcome)
           failed == \/ res.plan = Raised
                     \/ ~renderOk
                     \/ res.plan.v["summary"].t # "str"
       IN /\ request' = [message |-> message, file |-> file, mode |-> mode]
          /\ fetchCalls' = res.fetchCalls
          /\ providerCalls' = res.providerCalls
          /\ fetched' = res.fetched
          /\ plan' = res.plan
          /\ files' = IF res.plan = Raised THEN files
                      ELSE IF renderOk THEN res.plan ELSE [t |-> "partial"]
          /\ response' = IF failed THEN Http500
                         ELSE Response(Globals, mode, res)
    /\ UNCHANGED <<registryVars, pc, normVars>>

\* one call _normalize_plan(normIn, normSeed)
Normalize ==
    /\ pc = "idle"
    /\ normOut = NotRun
    /\ normOut' = NormalizePlan(normIn, normSeed)
    /\ UNCHANGED <<registryVars, pc, chatVars, normIn, normSeed, normAgain>>

\* _normalize_plan(normOut, normSeed) on the plan the first call returned
NormalizeAgain ==
    /\ pc = "idle"
    /\ normOut \notin {NotRun, Raised}
    /\ normAgain = NotRun
    /\ normAgain' = NormalizePlan(normOut, normSeed)
    /\ UNCHANGED <<registryVars, pc, chatVars, normIn, normSeed, normOut>>

\* ----------------------------------------------------------- specifications
\* the service: import, then requests
Init == Imported(ChatEnvs, {Sdks, {}}) /\ ChatIdle /\ NormIdle

Next ==
    \/ InitAIProvider
    \/ \E mode \in Modes, message \in Messages, file \in Uploads,
          outcome \in ProviderOutcomes, renderOk \in BOOLEAN :
            Chat(mode, message, file, outcome, renderOk)

Spec == Init /\ [][Next]_vars

\* provider selection over every environment
InitRegistry == Imported(SUBSET EnvVars, SUBSET Sdks) /\ ChatIdle /\ NormIdle

NextRegistry == InitAIProvider

SpecRegistry == InitRegistry /\ [][NextRegistry]_vars

\* the normalizer applied to every input of NormInputs
InitNorm ==
    /\ normIn \in NormInputs
    /\ normSeed \in Messages
    /\ normOut = NotRun
    /\ normAgain = NotRun
    /\ environ = {} /\ provider_setting = "auto" /\ imported = {}
    /\ ctorExc = NoExc /\ AI_ENABLED = FALSE /\ AI_PROVIDER = "auto"
    /\ AI_MODEL = <<"gpt-4o-mini">> /\ AI_STATUS_MSG = <<"AI not initialized">>
    /\ client = "None" /\ bedrock_client = "None"
    /\ pc = "idle"
    /\ ChatIdle

NextNorm == Normalize \/ NormalizeAgain

SpecNorm == InitNorm /\ [][NextNorm]_vars

\* ------------------------------------------------------------------ claims
\* s contains sub as a run of consecutive atoms
Contains(s, sub) ==
    \E i \in 1..(Len(s) + 1) :
        /\ i + Len(sub) - 1 <= Len(s)
        /\ SubSeq(s, i, i + Len(sub) - 1) = sub

StartsWith(s, pre) == Len(pre) <= Len(s) /\ SubSeq(s, 1, Len(pre)) = pre
EndsWith(s, suf) ==
    Len(suf) <= Len(s) /\ SubSeq(s, Len(s) - Len(suf) + 1, Len(s)) = suf

\* the DocumentationPlan invariants on a value p
PlanInvariant(p) ==
    /\ p.t = "dict"
    /\ Truthy(p.v["title"]) /\ Truthy(p.v["summary"])
    /\ Truthy(p.v["certificate_note"])
    /\ Len(p.v["sections"].v) >= 1
    /\ \A i \in 1..Len(p.v["sections"].v) :
            Len(p.v["sections"].v[i].v["bullets"].v) >= 1
    /\ Len(p.v["claims"].v) >= 1

\* C1: _normalize_plan returns, for every input and seed, a plan that
\* satisfies the DocumentationPlan invariants (it never raises).
C1_NormalizerTotal == normOut # NotRun => PlanInvariant(normOut)

NormReturned == normOut \notin {NotRun, Raised}

\* the entries of the "sections" the normalizer was given
InSections ==
    IF HasGet(normIn) /\ CanIter(Get(normIn, "sections", PyList(<<>>)))
    THEN Iter(Get(normIn, "sections", PyList(<<>>)))
    ELSE <<>>
OutSections == normOut.v["sections"].v

IsBlank(b) == b.t = "str" /\ Strip(b.v) = <<>>
RawBullets(section) == Iter(Get(section, "bullets", PyList(<<>>)))
\* the bullets of an input section that are left after cleaning
LeftBullets(section) == SelectSeq(RawBullets(section), LAMBDA b : ~IsBlank(b))

\* C8 as stated: blank bullets are dropped and an input section with no
\* bullet left is removed from the output (the output keeps only the input
\* sections that have a bullet left; one default section if none has).
C8_EmptySectionsRemoved ==
    (NormReturned /\ InSections # <<>>) =>
        LET kept == SelectSeq(InSections, LAMBDA x : LeftBullets(x) # <<>>)
        IN /\ \A i \in 1..Len(OutSections) :
                \A j \in 1..Len(OutSections[i].v["bullets"].v) :
                    ~IsBlank(OutSections[i].v["bullets"].v[j])
           /\ Len(OutSections) = IF kept = <<>> THEN 1 ELSE Len(kept)

\* C8 amended: blank bullets are dropped, the bullets left are trimmed, and
\* an input section with no bullet left is retained, in place, with the
\* single bullet "Details pending.".
C8_EmptySectionsKept ==
    (NormReturned /\ InSections # <<>>) =>
        /\ Len(OutSections) = Len(InSections)
        /\ \A i \in 1..Len(InSections) :
             LET left == LeftBullets(InSections[i])
                 out == OutSections[i].v["bullets"].v
             IN IF left = <<>>
                THEN out = <<PyStr(<<"Details pending.">>)>>
                ELSE /\ Len(out) = Len(left)
                     /\ \A j \in 1..Len(left) : out[j] = PyStr(Strip(left[j].v))

C8_Witness ==
    /\ NormReturned
    /\ \E i \in 1..Len(InSections) :
          /\ RawBullets(InSections[i]) # <<>>
          /\ LeftBullets(InSections[i]) = <<>>
          /\ OutSections[i].v["bullets"].v = <<PyStr(<<"Details pending.">>)>>
    /\ \E i \in 1..Len(InSections) :
          /\ \E j \in 1..Len(RawBullets(InSections[i])) :
                IsBlank(RawBullets(InSections[i])[j])
          /\ LeftBullets(InSections[i]) # <<>>

IsNonEmptyStr(x) == x.t = "str" /\ x.v # <<>>
HasKeys(d, ks) == d.t = "dict" /\ DOMAIN d.v = ks
IsStrList(x) ==
    x.t = "list" /\ x.v # <<>> /\ \A i \in 1..Len(x.v) : IsNonEmptyStr(x.v[i])

\* a plan that already satisfies the DocumentationPlan invariants
ValidPlan(p) ==
    /\ HasKeys(p, {"title", "summary", "sections", "claims", "certificate_note"})
    /\ IsNonEmptyStr(p.v["title"]) /\ IsNonEmptyStr(p.v["summary"])
    /\ IsNonEmptyStr(p.v["certificate_note"])
    /\ p.v["sections"].t = "list" /\ p.v["sections"].v # <<>>
    /\ \A i \in 1..Len(p.v["sections"].v) :
          /\ HasKeys(p.v["sections"].v[i], {"heading", "bullets"})
          /\ IsNonEmptyStr(p.v["sections"].v[i].v["heading"])
          /\ IsStrList(p.v["sections"].v[i].v["bullets"])
    /\ IsStrList(p.v["claims"])

\* C9: normalizing a valid plan returns it unchanged, and normalizing the
\* result of a normalization again changes nothing.
C9_Idempotent ==
    /\ (normOut # NotRun /\ ValidPlan(normIn)) => normOut = normIn
    /\ normAgain # NotRun => normAgain = normOut

Answered == response # NotRun /\ response.status = 200

\* C2: a hybrid request calls the fetcher once; the response is the AI one
\* (mode_used hybrid, plan = normalized fetched JSON) exactly when the fetcher
\* returned non-null JSON, and otherwise static with an error string.
C2_HybridContract ==
    (request # NotRun /\ request.mode = "hybrid") =>
        /\ fetchCalls = 1
        /\ Answered =>
            IF fetched[1] # PyNone
            THEN /\ response.ai.mode_used = "hybrid"
                 /\ plan = NormalizePlan(fetched[1], request.message)
            ELSE /\ response.ai.mode_used = "static"
                 /\ plan = FallbackPlan(request.message, request.file)
                 /\ response.ai.error # PyNone

\* C3: a static request never calls _call_ai_plan nor a provider, resolves
\* the static fallback plan, and is answered with a reply that starts with
\* "Generated documentation for: <message>", mode_used "static", error null.
C3_StaticNeverFetches ==
    (request # NotRun /\ request.mode = "static") =>
        /\ fetchCalls = 0 /\ providerCalls = 0 /\ fetched = <<>>
        /\ plan = FallbackPlan(request.message, request.file)
        /\ files \in {plan, [t |-> "partial"]}
        /\ Answered =>
            /\ StartsWith(response.reply,
                          <<"Generated documentation for:", " ">> \o request.message)
            /\ response.ai.mode_used = "static"
            /\ response.ai.error = PyNone

C3_Witness ==
    /\ Answered /\ request.mode = "static"
    /\ AI_ENABLED
    /\ response.reply = <<"Generated documentation for:", " ">> \o request.message

\* the auto-detection priority of the claim
Priority == <<"azure", "gemini", "bedrock", "openai">>

\* the credentials and configuration a provider needs to be usable
FullyConfigured(p, env) ==
    CASE p = "azure" -> /\ "AZURE_OPENAI_ENDPOINT" \in env
                        /\ "AZURE_OPENAI_API_KEY" \in env
                        /\ \/ "AZURE_OPENAI_DEPLOYMENT" \in env
                           \/ "AZURE_OPENAI_MODEL" \in env
      [] p = "gemini" -> "GEMINI_API_KEY" \in env
      [] p = "bedrock" -> "AWS_ACCESS_KEY_ID" \in env \/ "AWS_SESSION_TOKEN" \in env
      [] p = "openai" -> "OPENAI_API_KEY" \in env
      [] OTHER -> FALSE

\* C4: with AI_PROVIDER=auto (every SDK importable, no constructor failing)
\* the first fully configured provider in the order azure, gemini, bedrock,
\* openai is selected and enabled, whatever the providers before it lack.
C4_AutoFirstConfigured ==
    (pc # "import" /\ provider_setting = "auto" /\ imported = Sdks
        /\ ctorExc = NoExc) =>
        \A i \in 1..Len(Priority) :
            (/\ FullyConfigured(Priority[i], environ)
             /\ \A j \in 1..(i - 1) : ~FullyConfigured(Priority[j], environ))
            => (AI_PROVIDER = Priority[i] /\ AI_ENABLED)

SdkOf(p) == CASE p \in {"openai", "azure"} -> "openai"
              [] p = "gemini" -> "genai"
              [] p = "bedrock" -> "boto3"
              [] OTHER -> "none"

\* C5: when the resolved provider passed its credential validation and
\* constructing its client raises, initialization still returns, disabled,
\* with the exception message in AI_STATUS_MSG.
C5_CtorFailureContained ==
    (/\ pc # "import" /\ ctorExc # NoExc
     /\ SdkOf(AI_PROVIDER) \in imported
     /\ FullyConfigured(AI_PROVIDER, environ)) =>
        /\ pc = "serving"
        /\ ~AI_ENABLED
        /\ Contains(AI_STATUS_MSG, ctorExc.v)

\* C6: an explicit AI_PROVIDER is used whatever other credentials exist, is
\* enabled only if its own credentials are present, and ends disabled with
\* a status message, without an exception, when they are missing or the
\* name is unsupported.
C6_ExplicitProvider ==
    (pc # "import" /\ provider_setting # "auto") =>
        /\ AI_PROVIDER = provider_setting
        /\ AI_ENABLED => FullyConfigured(provider_setting, environ)
        /\ ~FullyConfigured(provider_setting, environ) =>
              /\ pc = "serving"
              /\ ~AI_ENABLED
              /\ AI_STATUS_MSG \notin {<<>>, <<"AI not initialized">>}

\* C7: _call_ai_plan returns a pair; an error comes with no plan; with the
\* registry disabled it returns (None, AI_STATUS_MSG) and calls no provider;
\* a returned plan is always a JSON object.
C7_FetcherContract ==
    fetchCalls = 1 =>
        /\ Len(fetched) = 2
        /\ fetched[2] # PyNone => (fetched[1] = PyNone /\ fetched[2].t = "str")
        /\ ~AI_ENABLED => (fetched = <<PyNone, PyStr(AI_STATUS_MSG)>> /\ providerCalls = 0)
        /\ fetched[1] # PyNone => fetched[1].t = "dict"

\* C10: in every response a non-null ai.error comes with mode_used "static"
\* and an "AI fallback reason: <error>" line in the reply, and no reply
\* carries an "AI warning" line.
C10_ErrorMeansFallback ==
    Answered =>
        /\ response.ai.error # PyNone =>
              /\ response.ai.mode_used = "static"
              /\ EndsWith(response.reply,
                    <<"\n", "AI fallback reason:", " ">> \o response.ai.error.v)
        /\ ~Contains(response.reply, <<"AI warning:">>)

====
